---- MODULE Spec2Model ----
(***************************************************************************)
(* Model of the SymbolicAI HTTP adapters OpenAIEngine                      *)
(* (src/src/engines/openai_engine.py) and OllamaEngine                     *)
(* (src/ollama_engine.py): prepare, forward and the reasoning-trace        *)
(* stripper _extract_final_response.                                       *)
(*                                                                         *)
(* Python values are tagged records ([t |-> "str", s |-> ...], ...).       *)
(* Prompt and message texts are TLA+ strings; the text of a provider       *)
(* response is a sequence of one-character strings, because the stripper   *)
(* works on characters; Join turns it into a TLA+ string.                  *)
(***************************************************************************)
EXTENDS Integers, Sequences, FiniteSets, TLC

\* ------------------------------------------------------------------ bounds
\* longest list used as a prompt source
MaxList == 2

\* ----------------------------------------------------------- Python values
Absent == [t |-> "absent"]
PyNone == [t |-> "none"]
PyStr(s) == [t |-> "str", s |-> s]
PyInt(n) == [t |-> "int", n |-> n]
PyFloat(lit) == [t |-> "float", lit |-> lit]
PyBool(b) == [t |-> "bool", b |-> b]
PyDict(d) == [t |-> "dict", d |-> d]
PyList(l) == [t |-> "list", l |-> l]
\* an object whose truth value cannot be taken (bool() raises), such as a
\* multi-element array
PyArray == [t |-> "array"]

EmptyDict == [k \in {} |-> PyNone]

\* hasattr(obj, name)
hasattr(v) == v.t # "absent"

\* the truth value Python gives to v in "a and b" / "if v"
Truthy(v) ==
    CASE v.t = "none" -> FALSE
      [] v.t = "str" -> v.s # ""
      [] v.t = "int" -> v.n # 0
      [] v.t = "float" -> v.lit # "0.0"
      [] v.t = "bool" -> v.b
      [] v.t = "dict" -> DOMAIN v.d # {}
      [] v.t = "list" -> Len(v.l) > 0
      [] OTHER -> FALSE

\* bool(v) raises
TruthRaises(v) == v.t = "array"

Digit(d) ==
    CASE d = 0 -> "0" [] d = 1 -> "1" [] d = 2 -> "2" [] d = 3 -> "3"
      [] d = 4 -> "4" [] d = 5 -> "5" [] d = 6 -> "6" [] d = 7 -> "7"
      [] d = 8 -> "8" [] d = 9 -> "9"

RECURSIVE NatStr(_)
NatStr(n) == IF n < 10 THEN Digit(n) ELSE NatStr(n \div 10) \o Digit(n % 10)

\* str(n) of an int
IntStr(n) == IF n < 0 THEN "-" \o NatStr(0 - n) ELSE NatStr(n)

\* repr of a message mapping written as {"role": ..., "content": ...}
\* (keys in that order, string values)
DictRepr(d) ==
    LET role == IF "role" \in DOMAIN d THEN "'role': '" \o d.role \o "'" ELSE ""
        sep == IF {"role", "content"} \subseteq DOMAIN d THEN ", " ELSE ""
        content == IF "content" \in DOMAIN d
                   THEN "'content': '" \o d.content \o "'" ELSE ""
    IN  "{" \o role \o sep \o content \o "}"

\* repr(v) of a value that is not a list
ScalarRepr(v) ==
    CASE v.t = "none" -> "None"
      [] v.t = "str" -> "'" \o v.s \o "'"
      [] v.t = "int" -> IntStr(v.n)
      [] v.t = "float" -> v.lit
      [] v.t = "bool" -> IF v.b THEN "True" ELSE "False"
      [] v.t = "dict" -> DictRepr(v.d)
      [] v.t = "array" -> "array([1, 2])"

RECURSIVE ListReprItems(_)
ListReprItems(l) ==
    IF Len(l) = 0 THEN ""
    ELSE IF Len(l) = 1 THEN ScalarRepr(l[1])
    ELSE ScalarRepr(l[1]) \o ", " \o ListReprItems(Tail(l))

Repr(v) == IF v.t = "list" THEN "[" \o ListReprItems(v.l) \o "]" ELSE ScalarRepr(v)

\* str(v): a string is itself, anything else is its repr
Str(v) == IF v.t = "str" THEN v.s ELSE Repr(v)

\* ------------------------------------------------------------ the adapters
Variants == {"openai", "ollama"}

\* the configuration held by an adapter built with its constructor defaults
\* (base_url.rstrip('/') leaves the defaults as they are)
EngineInit(v) ==
    IF v = "openai"
    THEN [base_url |-> "https://api.openai.com/v1", model |-> "gpt-4",
          api_key |-> PyNone]
    ELSE [base_url |-> "http://localhost:11434/v1", model |-> "deepseek-r1:14b",
          api_key |-> PyStr("ollama")]

\* Engine.id()
id(v) == IF v = "openai" THEN "openai-comp" ELSE "neurosymbolic"

DefaultPrompt == "Please provide a helpful response."
DefaultTemperature == PyFloat("0.7")
DefaultMaxTokens == PyInt(2000)

\* pass-through that takes the caller's context and user options along
PassThroughKeys_WithContext(v) ==
    {"top_p", "frequency_penalty", "presence_penalty", "stop", "context", "user"}

\* the optional parameters prepare copies from kwargs, per adapter
PassThroughKeys(v) ==
    IF v = "openai"
    THEN {"top_p", "frequency_penalty", "presence_penalty", "stop"}
    ELSE {"top_p", "frequency_penalty", "presence_penalty"}

\* ------------------------------------------------------------- the request
\* argument: has_prop says whether argument.prop exists; prop holds the four
\* attributes prepare and forward touch; kwargs is argument.kwargs.
Request(pre, proc, inst, kw) ==
    [has_prop |-> TRUE,
     prop |-> [preprocessed_input |-> pre, processed_input |-> proc,
               instance |-> inst, prepared_input |-> Absent],
     kwargs |-> kw]

\* a request object without a prop attribute
RequestWithoutProp(kw) ==
    [has_prop |-> FALSE,
     prop |-> [preprocessed_input |-> Absent, processed_input |-> Absent,
               instance |-> Absent, prepared_input |-> Absent],
     kwargs |-> kw]

\* dict.get(key, default)
get(d, key, default) == IF key \in DOMAIN d THEN d[key] ELSE default

UserMessage(text) == [role |-> "user", content |-> text]

\* SelectPrompt with processed_input tried before preprocessed_input
SelectPrompt_ProcessedFirst(argument) ==
    LET prop == argument.prop
        pre == prop.preprocessed_input
        proc == prop.processed_input
        inst == prop.instance
        kw == argument.kwargs
        Raise == [raised |-> TRUE, prompts |-> PyNone]
        Found(p) == [raised |-> FALSE, prompts |-> p]
    IN  IF ~argument.has_prop THEN Raise
        ELSE IF hasattr(proc) /\ TruthRaises(proc) THEN Raise
        ELSE IF hasattr(proc) /\ Truthy(proc) THEN Found(proc)
        ELSE IF hasattr(pre) /\ TruthRaises(pre) THEN Raise
        ELSE IF hasattr(pre) /\ Truthy(pre) THEN Found(pre)
        ELSE IF hasattr(inst) /\ TruthRaises(inst) THEN Raise
        ELSE IF hasattr(inst) /\ Truthy(inst)
             THEN IF kw.t # "dict" THEN Raise
                  ELSE LET context == get(kw.d, "context", PyStr(""))
                       IN  IF TruthRaises(context) THEN Raise
                           ELSE IF Truthy(context)
                           THEN Found(PyStr("Data: " \o Str(inst) \o "\nContext: "
                                            \o Str(context) \o "\nAnswer:"))
                           ELSE Found(PyStr(Str(inst)))
        ELSE Found(PyStr(DefaultPrompt))

\* SelectPrompt that takes preprocessed_input whenever the attribute is there,
\* empty or not
SelectPrompt_KeepsEmpty(argument) ==
    LET prop == argument.prop
        pre == prop.preprocessed_input
        proc == prop.processed_input
        inst == prop.instance
        kw == argument.kwargs
        Raise == [raised |-> TRUE, prompts |-> PyNone]
        Found(p) == [raised |-> FALSE, prompts |-> p]
    IN  IF ~argument.has_prop THEN Raise
        ELSE IF hasattr(pre) /\ TruthRaises(pre) THEN Raise
        ELSE IF hasattr(pre) THEN Found(pre)
        ELSE IF hasattr(proc) /\ TruthRaises(proc) THEN Raise
        ELSE IF hasattr(proc) /\ Truthy(proc) THEN Found(proc)
        ELSE IF hasattr(inst) /\ TruthRaises(inst) THEN Raise
        ELSE IF hasattr(inst) /\ Truthy(inst)
             THEN IF kw.t # "dict" THEN Raise
                  ELSE LET context == get(kw.d, "context", PyStr(""))
                       IN  IF TruthRaises(context) THEN Raise
                           ELSE IF Truthy(context)
                           THEN Found(PyStr("Data: " \o Str(inst) \o "\nContext: "
                                            \o Str(context) \o "\nAnswer:"))
                           ELSE Found(PyStr(Str(inst)))
        ELSE Found(PyStr(DefaultPrompt))

\* prepare, lines 89-105: the prompt source. raised = an exception left the
\* block; prompts = the value bound to prompts otherwise.
SelectPrompt(argument) ==
    LET prop == argument.prop
        pre == prop.preprocessed_input
        proc == prop.processed_input
        inst == prop.instance
        kw == argument.kwargs
        Raise == [raised |-> TRUE, prompts |-> PyNone]
        Found(p) == [raised |-> FALSE, prompts |-> p]
    IN  IF ~argument.has_prop THEN Raise
        ELSE IF hasattr(pre) /\ TruthRaises(pre) THEN Raise
        ELSE IF hasattr(pre) /\ Truthy(pre) THEN Found(pre)
        ELSE IF hasattr(proc) /\ TruthRaises(proc) THEN Raise
        ELSE IF hasattr(proc) /\ Truthy(proc) THEN Found(proc)
        ELSE IF hasattr(inst) /\ TruthRaises(inst) THEN Raise
        ELSE IF hasattr(inst) /\ Truthy(inst)
             THEN IF kw.t # "dict" THEN Raise
                  ELSE LET context == get(kw.d, "context", PyStr(""))
                       IN  IF TruthRaises(context) THEN Raise
                           ELSE IF Truthy(context)
                           THEN Found(PyStr("Data: " \o Str(inst) \o "\nContext: "
                                            \o Str(context) \o "\nAnswer:"))
                           ELSE Found(PyStr(Str(inst)))
        ELSE Found(PyStr(DefaultPrompt))

\* ItemMessage without the isinstance(prompt, dict) test
ItemMessage_AlwaysWrap(item) == [role |-> "user", content |-> Str(item)]

\* one element of a list prompt as a message (lines 116-119, 124-127)
ItemMessage(item) == IF item.t = "dict" THEN item.d ELSE UserMessage(Str(item))

\* prepare, lines 113-131: the prompt source as a messages list
BuildMessages(prompts) ==
    IF prompts.t = "list"
    THEN IF Len(prompts.l) = 1
         THEN <<ItemMessage(prompts.l[1])>>
         ELSE [i \in 1..Len(prompts.l) |-> ItemMessage(prompts.l[i])]
    ELSE IF prompts.t = "str" THEN <<UserMessage(prompts.s)>>
    ELSE <<UserMessage(Str(prompts))>>

\* BuildPayload with stream and temperature read the wrong way: stream from
\* the options, temperature always the default
BuildPayload_StreamFromOptions(v, model, messages, kwargs) ==
    LET copied == PassThroughKeys(v) \cap DOMAIN kwargs
    IN  [model |-> model,
         messages |-> messages,
         temperature |-> DefaultTemperature,
         max_tokens |-> get(kwargs, "max_tokens", DefaultMaxTokens),
         stream |-> IF "stream" \in DOMAIN kwargs THEN kwargs.stream.b ELSE FALSE]
        @@ [k \in copied |-> kwargs[k]]

\* prepare, lines 134-150: the payload of the normal path
BuildPayload(v, model, messages, kwargs) ==
    LET copied == PassThroughKeys(v) \cap DOMAIN kwargs
    IN  [model |-> model,
         messages |-> messages,
         temperature |-> get(kwargs, "temperature", DefaultTemperature),
         max_tokens |-> get(kwargs, "max_tokens", DefaultMaxTokens),
         stream |-> FALSE]
        @@ [k \in copied |-> kwargs[k]]

\* prepare, the except branch: the fallback payload
FallbackPayload(model) ==
    [model |-> model,
     messages |-> <<UserMessage(DefaultPrompt)>>,
     temperature |-> DefaultTemperature,
     max_tokens |-> DefaultMaxTokens,
     stream |-> FALSE]

\* the try block of prepare raises before it assigns prepared_input
NormalPathRaises(argument) ==
    \/ SelectPrompt(argument).raised
    \/ argument.kwargs.t # "dict"

\* the value prepare assigns to argument.prop.prepared_input
PreparedInput(v, model, argument) ==
    IF NormalPathRaises(argument)
    THEN FallbackPayload(model)
    ELSE BuildPayload(v, model, BuildMessages(SelectPrompt(argument).prompts),
                      argument.kwargs.d)

\* prepare raises to its caller: the except branch assigns to argument.prop
PrepareRaises(argument) == NormalPathRaises(argument) /\ ~argument.has_prop

\* PreparedArgument with the context option popped from kwargs
PreparedArgument_PopsContext(v, model, argument) ==
    [argument EXCEPT
        !.prop.prepared_input = PyDict(PreparedInput(v, model, argument)),
        !.kwargs = IF argument.kwargs.t = "dict"
                   THEN PyDict([k \in DOMAIN argument.kwargs.d \ {"context"} |->
                                   argument.kwargs.d[k]])
                   ELSE argument.kwargs]

\* the request object after prepare returned
PreparedArgument(v, model, argument) ==
    [argument EXCEPT !.prop.prepared_input =
        PyDict(PreparedInput(v, model, argument))]

\* -------------------------------------------- the reasoning-trace stripper
\* A response text is a sequence of one-character strings.
OpenTag == <<"<", "t", "h", "i", "n", "k", ">">>
CloseTag == <<"<", "/", "t", "h", "i", "n", "k", ">">>
Whitespace == {" ", "\n", "\t", "\r"}

\* pat occurs in s at position i (1-based)
OccursAt(s, pat, i) ==
    /\ i >= 1
    /\ i + Len(pat) - 1 <= Len(s)
    /\ \A k \in 1..Len(pat) : s[i + k - 1] = pat[k]

\* str.find(pat, from): the first position >= from where pat occurs, 0 if none
find(s, pat, from) ==
    LET hits == {i \in from..Len(s) : OccursAt(s, pat, i)}
    IN  IF hits = {} THEN 0 ELSE CHOOSE i \in hits : \A j \in hits : i <= j

\* str.rfind(pat): the last position where pat occurs, 0 if none
rfind(s, pat) ==
    LET hits == {i \in 1..Len(s) : OccursAt(s, pat, i)}
    IN  IF hits = {} THEN 0 ELSE CHOOSE i \in hits : \A j \in hits : i >= j

\* re.sub(r'<think>.*?</think>', '', s, flags=re.DOTALL) applied to s from
\* position i on: the leftmost match starts at the first open tag and ends
\* with the first close tag after it; scanning resumes after the match
RECURSIVE sub_think(_, _)
sub_think(s, i) ==
    LET p == find(s, OpenTag, i)
        q == IF p = 0 THEN 0 ELSE find(s, CloseTag, p + Len(OpenTag))
    IN  IF p = 0 \/ q = 0 THEN SubSeq(s, i, Len(s))
        ELSE SubSeq(s, i, p - 1) \o sub_think(s, q + Len(CloseTag))

\* str.strip()
RECURSIVE lstrip(_)
lstrip(s) == IF Len(s) > 0 /\ s[1] \in Whitespace THEN lstrip(Tail(s)) ELSE s

RECURSIVE rstrip(_)
rstrip(s) ==
    IF Len(s) > 0 /\ s[Len(s)] \in Whitespace
    THEN rstrip(SubSeq(s, 1, Len(s) - 1)) ELSE s

\* strip that trims the left end only
strip_LeftOnly(s) == lstrip(s)

strip(s) == rstrip(lstrip(s))

\* a stripper that does not trim what the removal left
extract_final_response_NoTrim(content) ==
    IF Len(content) = 0 THEN content
    ELSE LET cleaned == sub_think(content, 1)
             last_think_end == rfind(content, CloseTag)
         IN  IF Len(cleaned) = 0
             THEN IF last_think_end # 0
                  THEN strip(SubSeq(content, last_think_end + 8, Len(content)))
                  ELSE strip(content)
             ELSE cleaned

\* a stripper that always answers with what follows the last </think>
extract_final_response_TailOnly(content) ==
    LET last_think_end == rfind(content, CloseTag)
    IN  IF last_think_end # 0
        THEN strip(SubSeq(content, last_think_end + Len(CloseTag), Len(content)))
        ELSE strip(content)

\* _extract_final_response for a str argument
extract_final_response(content) ==
    IF Len(content) = 0 THEN content
    ELSE LET cleaned == strip(sub_think(content, 1))
             last_think_end == rfind(content, CloseTag)
         IN  IF Len(cleaned) = 0
             THEN IF last_think_end # 0
                  THEN strip(SubSeq(content, last_think_end + 8, Len(content)))
                  ELSE strip(content)
             ELSE cleaned

\* the characters of a text as one TLA+ string
RECURSIVE Join(_)
Join(s) ==
    IF Len(s) = 0 THEN ""
    ELSE IF Len(s) = 1 THEN s[1]
    ELSE LET half == Len(s) \div 2
         IN  Join(SubSeq(s, 1, half)) \o Join(SubSeq(s, half + 1, Len(s)))

\* ------------------------------------------------------------------ forward
\* a str taken from a decoded response body, as characters
PyText(c) == [t |-> "text", c |-> c]
\* a response body that is not JSON
NotJson == [t |-> "undecodable"]

\* Exceptions: a class and the text str(e) gives.
Raise(class, text, metadata) ==
    [kind |-> "raise", class |-> class, text |-> text, metadata |-> metadata]
Return(text, metadata) ==
    [kind |-> "return", ret |-> [texts |-> <<text>>, metadata |-> metadata]]

\* isinstance(e, requests.exceptions.RequestException); the JSONDecodeError
\* of requests derives from it and from json.JSONDecodeError
IsRequestException(class) ==
    class \in {"ConnectionError", "HTTPError", "JSONDecodeError"}
IsJSONDecodeError(class) == class = "JSONDecodeError"
\* isinstance(e, Exception)
IsException(class) ==
    class \in {"ConnectionError", "HTTPError", "JSONDecodeError",
               "AttributeError", "TypeError", "KeyError"}

AttributeErrorText == "object has no attribute 'prepared_input'"
ConnectionErrorText == "Connection refused"
JSONDecodeErrorText == "Expecting value: line 1 column 1 (char 0)"
NotIterableText == "argument of type is not iterable"
NoLenText == "object of type 'NoneType' has no len()"
KeyErrorText == "'message'"

\* str(e) of the HTTPError raise_for_status builds
HTTPErrorText(status, url) ==
    IntStr(status)
    \o (IF status < 500 THEN " Client Error" ELSE " Server Error")
    \o " for url: " \o url

\* Response.raise_for_status raises for 4xx and 5xx
RaisesForStatus(status) == 400 <= status /\ status < 600

\* argument.prop.prepared_input can be read
HasPreparedInput(argument) ==
    argument.has_prop /\ hasattr(argument.prop.prepared_input)

\* the entry cut at 200 characters with nothing appended
RawContentEntry_NoEllipsis(raw) ==
    IF Len(raw) > 200 THEN Join(SubSeq(raw, 1, 200)) ELSE Join(raw)

\* raw_content[:200] + "..." if len(raw_content) > 200 else raw_content
RawContentEntry(raw) ==
    IF Len(raw) > 200 THEN Join(SubSeq(raw, 1, 200)) \o "..." ELSE Join(raw)

\* {"error": True, "status": status, **metadata}
ErrorMetadata(status, metadata) == metadata @@ [error |-> TRUE, status |-> status]

\* the block both adapters run on a decoded body (openai_engine.py 234-241,
\* ollama_engine.py 203-214), up to the point where they build the return
\* value. kind: "raise", "no_choices", or "content" (clean = the stripped
\* text); metadata as updated so far.
ExamineResult(result, metadata) ==
    LET Content(clean, md) == [kind |-> "content", clean |-> clean, metadata |-> md]
        NoChoices == [kind |-> "no_choices", metadata |-> metadata]
    IN  IF result.t \in {"int", "none"} THEN Raise("TypeError", NotIterableText, metadata)
        ELSE IF result.t = "list" THEN NoChoices
        ELSE IF "choices" \notin DOMAIN result.d THEN NoChoices
        ELSE IF result.d.choices.t = "none" THEN Raise("TypeError", NoLenText, metadata)
        ELSE IF Len(result.d.choices.l) = 0 THEN NoChoices
        ELSE LET choice == result.d.choices.l[1].d
             IN  IF "message" \notin DOMAIN choice
                 THEN Raise("KeyError", KeyErrorText, metadata)
                 ELSE LET raw_content == choice.message.d.content
                          with_usage ==
                              IF "usage" \in DOMAIN result.d
                              THEN [usage |-> result.d.usage] @@ metadata
                              ELSE metadata
                      IN  IF raw_content.t = "none"
                          THEN Raise("TypeError", NoLenText, with_usage)
                          ELSE Content(extract_final_response(raw_content.c),
                                       [raw_content |-> RawContentEntry(raw_content.c)]
                                       @@ with_usage)

\* the metadata forward starts from
OpenAIMetadata(engine) ==
    [model |-> engine.model, base_url |-> engine.base_url, engine |-> id("openai")]
OllamaMetadata(engine) ==
    [model |-> engine.model, base_url |-> engine.base_url, engine |-> "ollama"]

\* OpenAIEngine.forward, the try block (lines 183-260)
OpenAITry(engine, argument, reply) ==
    LET metadata == OpenAIMetadata(engine)
        url == engine.base_url \o "/chat/completions"
        examined == ExamineResult(reply.body, metadata)
    IN  IF ~HasPreparedInput(argument)
        THEN Raise("AttributeError", AttributeErrorText, metadata)
        ELSE IF reply.kind = "exception"
        THEN Raise("ConnectionError", ConnectionErrorText, metadata)
        ELSE IF RaisesForStatus(reply.status_code)
        THEN Return("Error: "
                    \o (IF reply.status_code = 401
                        THEN "Authentication failed. Please check your API key."
                        ELSE "API request failed (HTTP "
                             \o IntStr(reply.status_code) \o "): "
                             \o HTTPErrorText(reply.status_code, url)),
                    [http_status |-> reply.status_code]
                    @@ ErrorMetadata("api_error", metadata))
        ELSE IF reply.body = NotJson
        THEN Return("Error: Failed to decode API response: " \o JSONDecodeErrorText,
                    ErrorMetadata("invalid_response", metadata))
        ELSE IF examined.kind = "raise" THEN examined
        ELSE IF examined.kind = "no_choices"
        THEN Return("Error: No response content", ErrorMetadata("no_content", metadata))
        ELSE IF Len(examined.clean) > 0
        THEN Return(Join(examined.clean), examined.metadata)
        ELSE Return("Error: No valid response generated",
                    ErrorMetadata("empty_response", examined.metadata))

\* OpenAIExcept without the last clause, except Exception
OpenAIExcept_NoCatchAll(exc) ==
    IF IsRequestException(exc.class)
    THEN Return("Error: API connection error: " \o exc.text,
                ErrorMetadata("connection_error", exc.metadata))
    ELSE exc

\* OpenAIExcept with the clauses in the other order: except Exception first
OpenAIExcept_CatchAllFirst(exc) ==
    IF IsException(exc.class)
    THEN Return("Error: Unexpected error: " \o exc.text,
                ErrorMetadata("internal_error", exc.metadata))
    ELSE exc

\* OpenAIEngine.forward, the except clauses (lines 262-280)
OpenAIExcept(exc) ==
    IF IsRequestException(exc.class)
    THEN Return("Error: API connection error: " \o exc.text,
                ErrorMetadata("connection_error", exc.metadata))
    ELSE IF IsException(exc.class)
    THEN Return("Error: Unexpected error: " \o exc.text,
                ErrorMetadata("internal_error", exc.metadata))
    ELSE exc

\* OllamaEngine.forward, the try block (lines 180-223)
OllamaTry(engine, argument, reply) ==
    LET metadata == OllamaMetadata(engine)
        url == engine.base_url \o "/chat/completions"
        examined == ExamineResult(reply.body, metadata)
    IN  IF ~HasPreparedInput(argument)
        THEN Raise("AttributeError", AttributeErrorText, metadata)
        ELSE IF reply.kind = "exception"
        THEN Raise("ConnectionError", ConnectionErrorText, metadata)
        ELSE IF RaisesForStatus(reply.status_code)
        THEN Raise("HTTPError", HTTPErrorText(reply.status_code, url), metadata)
        ELSE IF reply.body = NotJson
        THEN Raise("JSONDecodeError", JSONDecodeErrorText, metadata)
        ELSE IF examined.kind = "raise" THEN examined
        ELSE IF examined.kind = "no_choices"
        THEN Return("No response generated", metadata)
        ELSE Return(IF Len(examined.clean) > 0 THEN Join(examined.clean)
                    ELSE "No response generated",
                    examined.metadata)

\* OllamaEngine.forward, the except clauses (lines 225-239)
OllamaExcept(exc) ==
    IF IsRequestException(exc.class)
    THEN Return("Error: Ollama API request failed: " \o exc.text, exc.metadata)
    ELSE IF IsJSONDecodeError(exc.class)
    THEN Return("Error: Failed to decode Ollama response: " \o exc.text, exc.metadata)
    ELSE IF IsException(exc.class)
    THEN Return("Error: Unexpected error in OllamaEngine.forward: " \o exc.text,
                exc.metadata)
    ELSE exc

\* forward as a whole: the returned pair, or the exception that leaves it
ForwardOutcome(v, engine, argument, reply) ==
    LET tried == IF v = "openai" THEN OpenAITry(engine, argument, reply)
                 ELSE OllamaTry(engine, argument, reply)
    IN  IF tried.kind # "raise" THEN tried
        ELSE IF v = "openai" THEN OpenAIExcept(tried) ELSE OllamaExcept(tried)

\* a forward that POSTs the payload a second time
ForwardSent_Retries(argument) ==
    IF HasPreparedInput(argument)
    THEN <<argument.prop.prepared_input.d, argument.prop.prepared_input.d>>
    ELSE <<>>

\* the bodies forward POSTs to {base_url}/chat/completions
ForwardSent(argument) ==
    IF HasPreparedInput(argument) THEN <<argument.prop.prepared_input.d>> ELSE <<>>

\* the address of each of these POSTs
ForwardUrls(engine, argument) ==
    [i \in 1..Len(ForwardSent(argument)) |-> engine.base_url \o "/chat/completions"]

\* ------------------------------------------------------------------- inputs
RoleMessage == [role |-> "system", content |-> "Be brief."]
BareMessage == [content |-> "no role given"]
TranslatePrompt == "Translate to German: Hello"

\* the elements a list prompt is made of
Items == {PyStr("hi"), PyInt(7), PyDict(RoleMessage), PyDict(BareMessage)}

RECURSIVE ListsUpTo(_)
ListsUpTo(n) ==
    IF n = 0 THEN {<<>>}
    ELSE ListsUpTo(n - 1)
         \cup {Append(l, x) : l \in {m \in ListsUpTo(n - 1) : Len(m) = n - 1}, x \in Items}

\* values of preprocessed_input
PromptValues ==
    {Absent, PyNone, PyStr(""), PyStr(TranslatePrompt), PyInt(5),
     PyDict(RoleMessage), PyArray}
    \cup {PyList(l) : l \in ListsUpTo(MaxList)}

\* caller options: any subset of the optional parameters on top of a base
OptionValue(k) ==
    CASE k = "top_p" -> PyFloat("0.9")
      [] k = "frequency_penalty" -> PyFloat("0.5")
      [] k = "presence_penalty" -> PyFloat("0.1")
      [] k = "stop" -> PyStr("END")

BaseOptions ==
    {EmptyDict,
     [temperature |-> PyFloat("0.2"), max_tokens |-> PyInt(100),
      stream |-> PyBool(TRUE), user |-> PyStr("u1"), context |-> PyStr("Capital?")]}

OptionDicts ==
    {[k \in ks |-> OptionValue(k)] @@ base :
        ks \in SUBSET {"top_p", "frequency_penalty", "presence_penalty", "stop"},
        base \in BaseOptions}

\* the requests a caller hands to the adapter
Requests ==
    \* which field is the prompt source
    {Request(pre, proc, inst, kw) :
        pre \in {Absent, PyStr(""), PyStr(TranslatePrompt)},
        proc \in {Absent, PyStr(""), PyStr("Summarise this.")},
        inst \in {Absent, PyInt(0), PyStr("Paris"), PyInt(42)},
        kw \in {PyDict(EmptyDict), PyDict([context |-> PyStr("Capital?")]), Absent}}
    \* the shape of the prompt source
    \cup {Request(pre, PyStr("Summarise this."), Absent, PyDict(EmptyDict)) :
            pre \in PromptValues}
    \* the options
    \cup {Request(PyStr(TranslatePrompt), Absent, Absent, kw) :
            kw \in {PyDict(d) : d \in OptionDicts} \cup {Absent, PyNone}}
    \* a prompt that cannot be tested for truth, with and without options
    \cup {Request(PyArray, Absent, PyStr("Paris"), kw) :
            kw \in {PyDict(d) : d \in BaseOptions} \cup {Absent}}
    \* no prop attribute at all
    \cup {RequestWithoutProp(PyDict(EmptyDict))}

\* the texts a provider answers with
Contents ==
    {<<>>,
     <<" ">>,
     <<"O", "K">>,
     OpenTag \o <<"x">> \o CloseTag \o <<"O", "K">>,
     OpenTag \o <<"x">> \o CloseTag,
     OpenTag \o <<"O", "K">>}

Usage == PyDict([total_tokens |-> PyInt(12)])

Choice(content) == PyDict([message |-> PyDict([content |-> content])])

\* decoded bodies: the values of "choices", with and without "usage"
ChoicesValues ==
    {PyNone, PyList(<<>>), PyList(<<PyDict(EmptyDict)>>), PyList(<<Choice(PyNone)>>)}
    \cup {PyList(<<Choice(PyText(c))>>) : c \in Contents}

JsonBodies ==
    {PyInt(5), PyNone, PyList(<<>>), PyDict(EmptyDict), PyDict([usage |-> Usage])}
    \cup {PyDict([choices |-> ch]) : ch \in ChoicesValues}
    \cup {PyDict([choices |-> ch, usage |-> Usage]) : ch \in ChoicesValues}

\* what the provider does with a POST
Replies ==
    {[kind |-> "exception"]}
    \cup {[kind |-> "response", status_code |-> 200, body |-> b] :
            b \in JsonBodies \cup {NotJson}}
    \cup {[kind |-> "response", status_code |-> st, body |-> b] :
            st \in {304, 401, 500},
            b \in {NotJson, PyDict([choices |-> PyList(<<Choice(PyText(<<"O", "K">>))>>)])}}

\* ------------------------------------------------------------ state machine
VARIABLES
    engines,    \* per adapter: the configuration it holds
    argument,   \* the request object the caller passes to prepare and forward
    call,       \* the call that returned last and what it returned
    other,      \* a second request object the caller holds, if any
    repository  \* EngineRepository._engines: the engine registered under each key

vars == <<engines, argument, call, other, repository>>

NoCall == [op |-> "none"]

Init ==
    /\ engines = [v \in Variants |-> EngineInit(v)]
    /\ argument \in Requests
    /\ call = NoCall
    /\ other = Absent
    /\ repository = EmptyDict

\* a prepare that hands out the payload it built for the caller's other request
prepare_ReusesPayload(v) ==
    /\ IF PrepareRaises(argument)
       THEN /\ UNCHANGED argument
            /\ call' = [op |-> "prepare", variant |-> v, raised |-> TRUE]
       ELSE /\ argument' =
                 IF other # Absent /\ HasPreparedInput(other)
                 THEN [argument EXCEPT !.prop.prepared_input = other.prop.prepared_input]
                 ELSE PreparedArgument(v, engines[v].model, argument)
            /\ call' = [op |-> "prepare", variant |-> v, raised |-> FALSE,
                        ret |-> PyNone]
    /\ UNCHANGED <<engines, other, repository>>

\* engine.prepare(argument)
prepare(v) ==
    /\ IF PrepareRaises(argument)
       THEN /\ UNCHANGED argument
            /\ call' = [op |-> "prepare", variant |-> v, raised |-> TRUE]
       ELSE /\ argument' = PreparedArgument(v, engines[v].model, argument)
            /\ call' = [op |-> "prepare", variant |-> v, raised |-> FALSE,
                        ret |-> PyNone]
    /\ UNCHANGED <<engines, other, repository>>

\* a forward that POSTs the payload prepared last, whichever request it is on
forward_SendsLastPrepared(v, reply) ==
    /\ LET held == IF other # Absent /\ HasPreparedInput(other) THEN other ELSE argument
           out == ForwardOutcome(v, engines[v], held, reply)
       IN  call' = IF out.kind = "return"
                   THEN [op |-> "forward", variant |-> v, raised |-> FALSE,
                         ret |-> out.ret, sent |-> ForwardSent(held),
                         urls |-> ForwardUrls(engines[v], held),
                         reply |-> reply]
                   ELSE [op |-> "forward", variant |-> v, raised |-> TRUE,
                         sent |-> ForwardSent(held),
                         urls |-> ForwardUrls(engines[v], held),
                         reply |-> reply]
    /\ UNCHANGED <<engines, argument, other, repository>>

\* engine.forward(argument), the provider answering with reply
forward(v, reply) ==
    /\ LET out == ForwardOutcome(v, engines[v], argument, reply)
       IN  call' = IF out.kind = "return"
                   THEN [op |-> "forward", variant |-> v, raised |-> FALSE,
                         ret |-> out.ret, sent |-> ForwardSent(argument),
                         urls |-> ForwardUrls(engines[v], argument),
                         reply |-> reply]
                   ELSE [op |-> "forward", variant |-> v, raised |-> TRUE,
                         sent |-> ForwardSent(argument),
                         urls |-> ForwardUrls(engines[v], argument),
                         reply |-> reply]
    /\ UNCHANGED <<engines, argument, other, repository>>

Next ==
    \/ \E v \in Variants : prepare(v)
    \/ \E v \in Variants, reply \in Replies : forward(v, reply)

Spec == Init /\ [][Next]_vars

\* ------------------------------------------------- the stripper on its own
\* the most pieces a text is put together from
MaxPieces == 4

\* a piece of a text: plain characters, or a complete <think>...</think> block
Text(c) == [think |-> FALSE, c |-> c]
Think(c) == [think |-> TRUE, c |-> c]

Render(part) == IF part.think THEN OpenTag \o part.c \o CloseTag ELSE part.c

RECURSIVE Flatten(_)
Flatten(parts) ==
    IF parts = <<>> THEN <<>> ELSE Render(Head(parts)) \o Flatten(Tail(parts))

\* plain pieces include whole tags and the two halves of an opening tag, so
\* that texts with stray, unterminated and spliced tags are among the inputs
Pieces ==
    {Text(<<"<">>), Text(<<"t", "h", "i", "n", "k", ">">>), Text(OpenTag),
     Text(CloseTag), Text(<<"a">>), Text(<<" ">>), Think(<<"b", "\n", "c">>)}

RECURSIVE PieceLists(_)
PieceLists(n) ==
    IF n = 0 THEN {<<>>}
    ELSE PieceLists(n - 1)
         \cup {Append(l, x) : l \in {m \in PieceLists(n - 1) : Len(m) = n - 1},
                              x \in Pieces}

\* '<think>ignored</think>Hello' and '<think>a</think>Keep1<think>b</think>Keep2'
IgnoredHello ==
    <<Think(<<"i", "g", "n", "o", "r", "e", "d">>), Text(<<"H", "e", "l", "l", "o">>)>>
KeepBoth ==
    <<Think(<<"a">>), Text(<<"K", "e", "e", "p", "1">>),
      Think(<<"b">>), Text(<<"K", "e", "e", "p", "2">>)>>

\* '<think>a<think>b</think>c</think>d': a block inside a block, then the answer
NestedThenAnswer ==
    <<Text(OpenTag), Text(<<"a">>), Think(<<"b">>), Text(<<"c">>), Text(CloseTag),
      Text(<<"d">>)>>

\* the raw texts handed to the stripper, each with the pieces it is made of
RawContents ==
    {[op |-> "content", parts |-> p, content |-> Flatten(p)] :
        p \in PieceLists(MaxPieces) \cup {IgnoredHello, KeepBoth, NestedThenAnswer}}

\* the 2xx answer whose first choice holds the text c
ContentReply(c) ==
    [kind |-> "response", status_code |-> 200,
     body |-> PyDict([choices |-> PyList(<<Choice(PyText(c))>>)])]

StripInit ==
    /\ engines = [v \in Variants |-> EngineInit(v)]
    /\ argument =
          PreparedArgument("openai", EngineInit("openai").model,
                           Request(PyStr(TranslatePrompt), Absent, Absent,
                                   PyDict(EmptyDict)))
    /\ call \in RawContents
    /\ other = Absent
    /\ repository = EmptyDict

\* self._extract_final_response(content), on a raw text or on the text the
\* previous application returned
Strip ==
    /\ call.op \in {"content", "strip"}
    /\ LET content == IF call.op = "content" THEN call.content ELSE call.ret
       IN  call' = [op |-> "strip", parts |-> call.parts, content |-> content,
                    ret |-> extract_final_response(content)]
    /\ UNCHANGED <<engines, argument, other, repository>>

\* forward, the provider answering with the raw text
Answer(v) ==
    /\ call.op = "content"
    /\ forward(v, ContentReply(call.content))

StripNext ==
    \/ Strip
    \/ \E v \in Variants : Answer(v)

StripSpec == StripInit /\ [][StripNext]_vars

\* ----------------------------------------------- answers longer than 200
\* the longest raw text a provider answers with
MaxLong == 201

\* a text of n characters, no two neighbours alike
Digits(n) == [i \in 1..n |-> Digit(i % 10)]

LongContents ==
    {Digits(n) : n \in (MaxLong - 2)..MaxLong}
    \cup {OpenTag \o <<"x">> \o CloseTag \o Digits(MaxLong)}

LongReplies ==
    {[kind |-> "response", status_code |-> 200,
      body |-> PyDict([choices |-> PyList(<<Choice(PyText(c))>>)])] :
        c \in LongContents}

LongRequests ==
    {Request(PyStr(TranslatePrompt), Absent, Absent, PyDict(d)) : d \in BaseOptions}

LongInit ==
    /\ engines = [v \in Variants |-> EngineInit(v)]
    /\ argument \in LongRequests
    /\ call = NoCall
    /\ other = Absent
    /\ repository = EmptyDict

LongNext ==
    \/ \E v \in Variants : prepare(v)
    \/ \E v \in Variants, reply \in Replies \cup LongReplies : forward(v, reply)

LongSpec == LongInit /\ [][LongNext]_vars

\* ----------------------------------------------- two requests, one adapter
\* requests whose payloads differ from each other; the last one is prepared
\* through the except branch
PairRequests ==
    {Request(PyStr(TranslatePrompt), Absent, Absent, PyDict(EmptyDict)),
     Request(Absent, PyStr("Summarise this."), Absent,
             PyDict([temperature |-> PyFloat("0.2"), stop |-> PyStr("END")])),
     Request(PyArray, Absent, PyStr("Paris"), Absent)}

PairReplies ==
    {[kind |-> "exception"],
     [kind |-> "response", status_code |-> 500, body |-> NotJson],
     [kind |-> "response", status_code |-> 200,
      body |-> PyDict([choices |-> PyList(<<Choice(PyText(<<"O", "K">>))>>)])]}

PairInit ==
    /\ engines = [v \in Variants |-> EngineInit(v)]
    /\ argument \in PairRequests
    /\ other \in PairRequests
    /\ call = NoCall
    /\ repository = EmptyDict

\* the caller turns to its other request
Switch ==
    /\ other # Absent
    /\ argument' = other
    /\ other' = argument
    /\ call' = [op |-> "switch"]
    /\ UNCHANGED <<engines, repository>>

PairNext ==
    \/ \E v \in Variants : prepare(v)
    \/ \E v \in Variants, reply \in PairReplies : forward(v, reply)
    \/ Switch

PairSpec == PairInit /\ [][PairNext]_vars

\* ------------------------------------------------------------ engine setup
\* a str read from a config file or a default, as characters
Chars_OpenAIDefault == <<"h", "t", "t", "p", "s", ":", "/", "/", "a", "p", "i", ".", "o", "p", "e", "n", "a", "i", ".", "c", "o", "m", "/", "v", "1">>
Chars_OllamaDefault == <<"h", "t", "t", "p", ":", "/", "/", "l", "o", "c", "a", "l", "h", "o", "s", "t", ":", "1", "1", "4", "3", "4", "/", "v", "1">>
Chars_Remote == <<"h", "t", "t", "p", "s", ":", "/", "/", "x", ".", "i", "o", "/", "v", "1", "/">>
Chars_Local == <<"h", "t", "t", "p", ":", "/", "/", "l", "o", "c", "a", "l", "h", "o", "s", "t", "/", "v", "1">>
Chars_localhost == <<"l", "o", "c", "a", "l", "h", "o", "s", "t">>
Chars_127 == <<"1", "2", "7", ".", "0", ".", "0", ".", "1">>

\* bool(v) for the values a config file holds
Bool(v) == IF v.t = "text" THEN Len(v.c) > 0 ELSE Truthy(v)

\* v.rstrip('/') of a str
RECURSIVE rstrip_slash(_)
rstrip_slash(s) ==
    IF Len(s) > 0 /\ s[Len(s)] = "/"
    THEN rstrip_slash(SubSeq(s, 1, Len(s) - 1)) ELSE s

\* EngineManager.ENGINE_TYPES
ENGINE_TYPES ==
    ("openai-comp" :> [class |-> "OpenAIEngine",
                       test_func |-> "test_openai_connection",
                       default_config |-> "symai.config.openai.json",
                       default_base_url |-> PyText(Chars_OpenAIDefault),
                       default_model |-> PyStr("gpt-4")])
    @@ ("ollama" :> [class |-> "OllamaEngine",
                     test_func |-> "test_ollama_connection",
                     default_config |-> "symai.config.ollama.json",
                     default_base_url |-> PyText(Chars_OllamaDefault),
                     default_model |-> PyStr("deepseek-r1:14b")])

\* ENGINE_CONFIGS of main.py
MainEngineConfigs ==
    ("openai" :> [config_file |-> "symai.config.openai.json"])
    @@ ("ollama" :> [config_file |-> "symai.config.ollama.json"])

\* ENGINE_CONFIGS of utils/config.py
ENGINE_CONFIGS ==
    ("openai-comp" :> [config_file |-> "symai.config.openai.json"])
    @@ ("ollama" :> [config_file |-> "symai.config.ollama.json"])

is_valid_engine(engine_type) == engine_type \in DOMAIN ENGINE_CONFIGS

URL_KEY == "NEUROSYMBOLIC_ENGINE_BASE_URL"
MODEL_KEY == "NEUROSYMBOLIC_ENGINE_MODEL"
API_KEY_KEY == "NEUROSYMBOLIC_ENGINE_API_KEY"
Placeholder == PyStr("<YOUR_OPENAI_API_KEY>")

\* what open() and json.load() find at the config path
MissingFile == [t |-> "missing"]
InvalidJson == [t |-> "invalid"]
Json(v) == [t |-> "json", v |-> v]

LongKey == PyStr("sk-0123456789abcdefghij")
ShortKey == PyStr("sk-short")

ConfigDicts ==
    {EmptyDict,
     (URL_KEY :> PyText(Chars_Remote)) @@ (MODEL_KEY :> PyStr("gpt-4o"))
        @@ (API_KEY_KEY :> LongKey),
     (URL_KEY :> PyText(Chars_Remote)) @@ (API_KEY_KEY :> Placeholder),
     (URL_KEY :> PyText(Chars_Local)) @@ (API_KEY_KEY :> ShortKey),
     (URL_KEY :> PyNone) @@ (API_KEY_KEY :> LongKey),
     (URL_KEY :> PyText(Chars_Local)) @@ (MODEL_KEY :> PyStr("llama3"))}

ConfigFiles ==
    {MissingFile, InvalidJson, Json(PyList(<<>>))}
    \cup {Json(PyDict(d)) : d \in ConfigDicts}

\* what requests.get does: a response with a status code, or a
\* RequestException
Probes ==
    {[kind |-> "response", status_code |-> 200],
     [kind |-> "response", status_code |-> 503],
     [kind |-> "exception"]}

\* the outcome of a connection test: the bool returned, or an exception that
\* is not a RequestException; gets are the URLs requested
Tested(ret, gets) == [kind |-> "return", ret |-> ret, gets |-> gets]
TestRaised(gets) == [kind |-> "raise", ret |-> FALSE, gets |-> gets]

ModelsUrl(base_url) == Join(rstrip_slash(base_url.c)) \o "/models"

ProbeResult(base_url, probe) ==
    IF base_url.t # "text" THEN TestRaised(<<>>)
    ELSE Tested(probe.kind = "response" /\ probe.status_code = 200,
                <<ModelsUrl(base_url)>>)

test_openai_connection(base_url, api_key, probe) ==
    IF ~Bool(api_key) THEN Tested(FALSE, <<>>)
    ELSE ProbeResult(base_url, probe)

test_ollama_connection(base_url, probe) == ProbeResult(base_url, probe)

\* EngineManager.test_engine_connection
test_engine_connection(engine_type, base_url, api_key, probe) ==
    IF engine_type \notin DOMAIN ENGINE_TYPES THEN Tested(FALSE, <<>>)
    ELSE LET url == IF ~Bool(base_url)
                    THEN ENGINE_TYPES[engine_type].default_base_url
                    ELSE base_url
             out == IF engine_type = "openai-comp"
                    THEN test_openai_connection(url, api_key, probe)
                    ELSE test_ollama_connection(url, probe)
         IN  Tested(out.kind = "return" /\ out.ret, out.gets)

\* the key check that lets every key through
ApiKeyRejected_Never(engine_type, api_key) == FALSE

\* setup_engine's check of the API key
ApiKeyRejected(engine_type, api_key) ==
    engine_type = "openai-comp" /\ (~Bool(api_key) \/ api_key = Placeholder)

KEY == "neurosymbolic"

\* a newly constructed engine; obj tells it from the object registered before
NewEngine(class, base_url, model, api_key, reg) ==
    [class |-> class, base_url |-> Join(rstrip_slash(base_url.c)),
     model |-> model, api_key |-> api_key,
     obj |-> IF KEY \in DOMAIN reg THEN 1 - reg[KEY].obj ELSE 0]

\* a register that leaves the registry as it was
register_Nothing(reg, name, engine) == reg

\* EngineRepository.register(name, engine, allow_engine_override)
register(reg, name, engine) == (name :> engine) @@ reg

\* the result of setup_engine: the bool returned, the steps entered, the URLs
\* requested and the registry afterwards
SetupResult(ret, steps, gets, reg) ==
    [ret |-> ret, steps |-> steps, gets |-> gets, registry |-> reg]

\* EngineManager.setup_engine
SetupOutcome(engine_type, file, allow_override, probe, reg) ==
    LET engine_config == ENGINE_TYPES[engine_type]
        config == file.v
        base_url == get(config.d, URL_KEY, engine_config.default_base_url)
        model == get(config.d, MODEL_KEY, engine_config.default_model)
        api_key == get(config.d, API_KEY_KEY, PyNone)
        tested == IF engine_type = "openai-comp"
                  THEN test_openai_connection(base_url, api_key, probe)
                  ELSE test_ollama_connection(base_url, probe)
        engine == NewEngine(engine_config.class, base_url, model, api_key, reg)
        keyed == IF engine_type = "openai-comp"
                 THEN <<"engine_type", "config_load", "api_key">>
                 ELSE <<"engine_type", "config_load">>
    IN  IF engine_type \notin DOMAIN ENGINE_TYPES
        THEN SetupResult(FALSE, <<"engine_type">>, <<>>, reg)
        ELSE IF file.t # "json" \/ config.t # "dict"
        THEN SetupResult(FALSE, <<"engine_type", "config_load">>, <<>>, reg)
        ELSE IF ApiKeyRejected(engine_type, api_key)
        THEN SetupResult(FALSE, keyed, <<>>, reg)
        ELSE IF tested.kind = "raise" \/ ~tested.ret
        THEN SetupResult(FALSE, Append(keyed, "connection_test"),
                         tested.gets, reg)
        ELSE IF allow_override \/ KEY \notin DOMAIN reg
        THEN SetupResult(TRUE,
                         keyed \o <<"connection_test", "create", "register">>,
                         tested.gets, register(reg, KEY, engine))
        ELSE SetupResult(FALSE, keyed \o <<"connection_test", "create">>,
                         tested.gets, reg)

\* the six demos main runs, in order
Demos ==
    <<"demo_basic_symbols", "demo_symbol_operations", "demo_data_processing",
      "demo_contracts_basic", "demo_configuration", "demo_advanced_features">>

\* check_setup of main.py
check_setup(engine_type, file, probe, reg) ==
    IF engine_type \notin DOMAIN MainEngineConfigs
    THEN SetupResult(FALSE, <<>>, <<>>, reg)
    ELSE SetupOutcome(engine_type, file, TRUE, probe, reg)

\* main of main.py: argv is sys.argv[1:]
MainOutcome(argv, file, probe, reg) ==
    IF Len(argv) # 1 \/ argv[1] \notin DOMAIN MainEngineConfigs
    THEN [usage |-> TRUE, setup |-> SetupResult(FALSE, <<>>, <<>>, reg),
          demos |-> <<>>]
    ELSE LET setup == check_setup(argv[1], file, probe, reg)
         IN  [usage |-> FALSE, setup |-> setup,
              demos |-> IF setup.ret THEN Demos ELSE <<>>]

\* load_config of the test script: the config with the defaults set, exit 1
\* (SystemExit), or the AttributeError of setdefault
load_config(engine_type, file) ==
    IF file.t # "json" THEN [kind |-> "exit"]
    ELSE IF file.v.t # "dict" THEN [kind |-> "raise"]
    ELSE [kind |-> "return",
          config |-> file.v.d
                     @@ (URL_KEY :> ENGINE_TYPES[engine_type].default_base_url)
                     @@ (MODEL_KEY :> ENGINE_TYPES[engine_type].default_model)]

Contains_Text(s, pat) ==
    \E i \in 1..(Len(s) - Len(pat) + 1) : SubSeq(s, i, i + Len(pat) - 1) = pat

is_local_endpoint(url) ==
    Contains_Text(url.c, Chars_localhost) \/ Contains_Text(url.c, Chars_127)

\* verify_config of the test script
verify_config(config, engine_type) ==
    LET base_url == get(config, URL_KEY, PyNone)
        model == get(config, MODEL_KEY, PyNone)
        api_key == get(config, API_KEY_KEY, PyNone)
    IN  IF ~Bool(base_url) \/ ~Bool(model) THEN FALSE
        ELSE IF engine_type = "openai-comp" /\ ~is_local_endpoint(base_url)
        THEN ~(~Bool(api_key) \/ api_key = Placeholder \/ Len(api_key.s) < 20)
        ELSE TRUE

Tests == <<"Basic Query", "Context Handling", "Performance">>
TestOutcomes == {"pass", "fail", "raise"}

\* a run_tests that counts every test that did not return False
run_tests_CountsRaised(outcomes) ==
    [passed |-> Cardinality({i \in 1..Len(Tests) : outcomes[i] # "fail"}),
     total |-> Len(Tests),
     ran |-> [i \in 1..Len(Tests) |-> Tests[i]]]

\* run_tests: outcomes[i] is what the i-th test does
run_tests(outcomes) ==
    [passed |-> Cardinality({i \in 1..Len(Tests) : outcomes[i] = "pass"}),
     total |-> Len(Tests),
     ran |-> [i \in 1..Len(Tests) |-> Tests[i]]]

\* the result of the test script: exit status, steps entered, tests run
ScriptResult(status, steps, results, gets, reg) ==
    [status |-> status, steps |-> steps, results |-> results, gets |-> gets,
     registry |-> reg]

NoTests == [passed |-> 0, total |-> 0, ran |-> <<>>]

\* main of the test script: argv is sys.argv[1:], probe1 answers the
\* connection test, probe2 the one inside setup_engine
ScriptOutcome(argv, file, probe1, probe2, outcomes, reg) ==
    LET engine_type == argv[1]
        loaded == load_config(engine_type, file)
        config == loaded.config
        base_url == get(config, URL_KEY, PyNone)
        api_key == get(config, API_KEY_KEY, PyNone)
        tested == test_engine_connection(engine_type, base_url, api_key, probe1)
        setup == SetupOutcome(engine_type, file, TRUE, probe2, reg)
        results == run_tests(outcomes)
    IN  IF Len(argv) # 1 \/ ~is_valid_engine(argv[1])
        THEN ScriptResult(1, <<>>, NoTests, <<>>, reg)
        ELSE IF loaded.kind # "return"
        THEN ScriptResult(1, <<"load_config">>, NoTests, <<>>, reg)
        ELSE IF ~verify_config(config, engine_type)
        THEN ScriptResult(1, <<"load_config", "verify_config">>, NoTests,
                          <<>>, reg)
        ELSE IF ~tested.ret
        THEN ScriptResult(1, <<"load_config", "verify_config",
                               "test_engine_connection">>, NoTests,
                          tested.gets, reg)
        ELSE IF ~setup.ret
        THEN ScriptResult(1, <<"load_config", "verify_config",
                               "test_engine_connection", "setup_engine">>,
                          NoTests, tested.gets \o setup.gets, setup.registry)
        ELSE ScriptResult(IF results.passed = results.total THEN 0 ELSE 1,
                          <<"load_config", "verify_config",
                            "test_engine_connection", "setup_engine",
                            "run_tests">>,
                          results, tested.gets \o setup.gets, setup.registry)

EngineTypes == {"openai-comp", "ollama", "openai"}
Argvs == {<<>>, <<"openai">>, <<"ollama">>, <<"openai-comp">>,
          <<"ollama", "openai">>}

SetupInit ==
    /\ engines = [v \in Variants |-> EngineInit(v)]
    /\ argument = Request(PyStr(TranslatePrompt), Absent, Absent, PyDict(EmptyDict))
    /\ call = NoCall
    /\ other = Absent
    /\ repository = EmptyDict

\* one call of EngineManager.setup_engine, in a process that only sets engines
\* up
setup_engine(engine_type, file, allow_override, probe) ==
    /\ call.op \in {"none", "setup_engine"}
    /\ LET out == SetupOutcome(engine_type, file, allow_override, probe,
                               repository)
       IN  /\ call' = [op |-> "setup_engine", engine_type |-> engine_type,
                       file |-> file, allow_override |-> allow_override,
                       probe |-> probe, ret |-> out.ret, steps |-> out.steps,
                       gets |-> out.gets]
           /\ repository' = out.registry
    /\ UNCHANGED <<engines, argument, other>>

\* python main.py <argv> in a new process
main(argv, file, probe) ==
    /\ call = NoCall
    /\ LET out == MainOutcome(argv, file, probe, repository)
       IN  /\ call' = [op |-> "main", argv |-> argv, file |-> file,
                       probe |-> probe, usage |-> out.usage,
                       ret |-> out.setup.ret, steps |-> out.setup.steps,
                       demos |-> out.demos]
           /\ repository' = out.setup.registry
    /\ UNCHANGED <<engines, argument, other>>

\* python -m src.tests.test_engine <argv> in a new process
test_engine_main(argv, file, probe1, probe2, outcomes) ==
    /\ call = NoCall
    /\ LET out == ScriptOutcome(argv, file, probe1, probe2, outcomes,
                                repository)
       IN  /\ call' = [op |-> "test_engine", argv |-> argv, file |-> file,
                       probe1 |-> probe1, probe2 |-> probe2,
                       outcomes |-> outcomes, status |-> out.status,
                       steps |-> out.steps, results |-> out.results,
                       gets |-> out.gets]
           /\ repository' = out.registry
    /\ UNCHANGED <<engines, argument, other>>

SetupNext ==
    \/ \E engine_type \in EngineTypes, file \in ConfigFiles,
          allow_override \in BOOLEAN, probe \in Probes :
          setup_engine(engine_type, file, allow_override, probe)
    \/ \E argv \in Argvs, file \in ConfigFiles, probe \in Probes :
          main(argv, file, probe)
    \/ \E argv \in Argvs, file \in ConfigFiles, probe1 \in Probes,
          probe2 \in Probes, outcomes \in [1..Len(Tests) -> TestOutcomes] :
          test_engine_main(argv, file, probe1, probe2, outcomes)

SetupSpec == SetupInit /\ [][SetupNext]_vars

\* ------------------------------------------------------------------- claims
\* the state right after a call returned
AfterPrepare == call.op = "prepare" /\ ~call.raised
AfterForward == call.op = "forward" /\ ~call.raised
\* prepare returned and its try block ran to the end
AfterNormalPrepare == AfterPrepare /\ ~NormalPathRaises(argument)
\* prepare returned through its except branch
AfterFallbackPrepare == AfterPrepare /\ NormalPathRaises(argument)
Payload == argument.prop.prepared_input.d
Options == IF argument.kwargs.t = "dict" THEN argument.kwargs.d ELSE EmptyDict

\* C1: forward of either adapter never raises; whatever the provider does
\* and whatever the request holds, it returns a one-element list with a
\* non-empty string and a metadata mapping with model, base_url and engine.
C1_ForwardReturnsPair ==
    call.op = "forward" =>
        /\ ~call.raised
        /\ Len(call.ret.texts) = 1
        /\ call.ret.texts[1] # ""
        /\ {"model", "base_url", "engine"} \subseteq DOMAIN call.ret.metadata

\* forward ran on a request without a prepared payload and returned
C1_Witness ==
    /\ AfterForward
    /\ ~HasPreparedInput(argument)
    /\ call.sent = <<>>

\* a forward call that counts as a success: a 2xx answer whose body decodes
\* to an object with a first choice whose text is non-empty after stripping
SuccessfulExchange ==
    /\ HasPreparedInput(argument)
    /\ call.reply.kind = "response"
    /\ call.reply.status_code \in 200..299
    /\ call.reply.body.t = "dict"
    /\ "choices" \in DOMAIN call.reply.body.d
    /\ call.reply.body.d.choices.t = "list"
    /\ Len(call.reply.body.d.choices.l) > 0
    /\ "message" \in DOMAIN call.reply.body.d.choices.l[1].d
    /\ call.reply.body.d.choices.l[1].d.message.d.content.t = "text"
    /\ extract_final_response(call.reply.body.d.choices.l[1].d.message.d.content.c) # <<>>

StatusEnum ==
    {"api_error", "invalid_response", "empty_response", "no_content",
     "connection_error", "internal_error"}

\* C2: for both adapters a failed forward returns metadata with error = true
\* and a status of the enum, and a successful forward returns metadata
\* without an error flag.
C2_FailureIsFlagged ==
    AfterForward =>
        IF SuccessfulExchange
        THEN "error" \notin DOMAIN call.ret.metadata
        ELSE /\ {"error", "status"} \subseteq DOMAIN call.ret.metadata
             /\ call.ret.metadata.error = TRUE
             /\ call.ret.metadata.status \in StatusEnum

PayloadKeys == {"model", "messages", "temperature", "max_tokens", "stream"}

\* C3: prepare is total: for every request it returns None without raising
\* and leaves a payload with model, messages, temperature, max_tokens and
\* stream in prepared_input.
C3_PrepareTotal ==
    call.op = "prepare" =>
        /\ ~call.raised
        /\ call.ret = PyNone
        /\ HasPreparedInput(argument)
        /\ PayloadKeys \subseteq DOMAIN Payload
        /\ Len(Payload.messages) >= 0

\* the field the precedence chain points at, whether or not prepare could use it
Present(v) == hasattr(v) /\ (v.t = "array" \/ Truthy(v))
OriginalPromptSource ==
    IF Present(argument.prop.preprocessed_input) THEN argument.prop.preprocessed_input
    ELSE IF Present(argument.prop.processed_input) THEN argument.prop.processed_input
    ELSE IF Present(argument.prop.instance) THEN argument.prop.instance
    ELSE PyStr(DefaultPrompt)

\* C4: when the normal preparation fails, the fallback payload has one user
\* message holding the string form of the request's original prompt source,
\* temperature 0.7 and the default max_tokens.
C4_FallbackCarriesPrompt ==
    AfterFallbackPrepare =>
        /\ Payload.messages = <<UserMessage(Str(OriginalPromptSource))>>
        /\ Payload.temperature = DefaultTemperature
        /\ Payload.max_tokens = DefaultMaxTokens

\* a prompt field the chain can use: present and non-empty
Usable(v) == hasattr(v) /\ Truthy(v)

\* the instance rendered as the prompt
RenderedInstance ==
    IF "context" \in DOMAIN Options /\ Truthy(Options.context)
    THEN PyStr("Data: " \o Str(argument.prop.instance) \o "\nContext: "
               \o Str(Options.context) \o "\nAnswer:")
    ELSE PyStr(Str(argument.prop.instance))

\* the prompt source the precedence rule names
ExpectedPrompt ==
    IF Usable(argument.prop.preprocessed_input) THEN argument.prop.preprocessed_input
    ELSE IF Usable(argument.prop.processed_input) THEN argument.prop.processed_input
    ELSE IF Usable(argument.prop.instance) THEN RenderedInstance
    ELSE PyStr(DefaultPrompt)

\* the request with the given prop fields taken away
Without(fields) ==
    [argument EXCEPT
        !.prop = [f \in DOMAIN argument.prop |->
                    IF f \in fields \cup {"prepared_input"} THEN Absent
                    ELSE argument.prop[f]]]

\* C5: prepare picks the prompt source by strict precedence
\* (preprocessed_input, processed_input, instance rendered with the context
\* option, the fixed default), and a lower-priority field never affects the
\* payload when a higher-priority field is usable.
C5_Precedence ==
    AfterNormalPrepare =>
        /\ SelectPrompt(argument).prompts = ExpectedPrompt
        /\ Payload.messages = BuildMessages(ExpectedPrompt)
        /\ Usable(argument.prop.preprocessed_input) =>
              Payload = PreparedInput(call.variant, engines[call.variant].model,
                                      Without({"processed_input", "instance"}))
        /\ (~Usable(argument.prop.preprocessed_input)
            /\ Usable(argument.prop.processed_input)) =>
              Payload = PreparedInput(call.variant, engines[call.variant].model,
                                      Without({"instance"}))
        /\ (argument.prop.preprocessed_input = PyStr("")
            /\ argument.prop.processed_input = Absent
            /\ argument.prop.instance = PyInt(42)
            /\ "context" \in DOMAIN Options) =>
              Payload.messages =
                  <<[role |-> "user",
                     content |-> "Data: 42\nContext: Capital?\nAnswer:"]>>

\* prepare used the instance, with a context, although the two fields of
\* higher priority are there: one empty, one missing
C5_Witness ==
    /\ AfterNormalPrepare
    /\ argument.prop.preprocessed_input = PyStr("")
    /\ argument.prop.processed_input = Absent
    /\ argument.prop.instance = PyStr("Paris")
    /\ "context" \in DOMAIN Options
    /\ Payload.messages[1].content = "Data: Paris\nContext: Capital?\nAnswer:"

\* prepare used processed_input while a usable instance was there
C5_WitnessLower ==
    /\ AfterNormalPrepare
    /\ ~Usable(argument.prop.preprocessed_input)
    /\ Usable(argument.prop.processed_input)
    /\ Usable(argument.prop.instance)

\* C6: the prompt source becomes messages as follows: a string gives one
\* user message with that content; a list gives one message per element in
\* the same order, a mapping kept as it is and any other element wrapped as
\* a user message with str(element); any other value gives one user message
\* with str(value). The number of messages is the number of list elements,
\* or 1 for a source that is no list.
C6_MessageMapping ==
    AfterNormalPrepare =>
        LET src == SelectPrompt(argument).prompts
            msgs == Payload.messages
        IN  /\ src.t = "str" => msgs = <<[role |-> "user", content |-> src.s]>>
            /\ src.t = "list" =>
                /\ Len(msgs) = Len(src.l)
                /\ \A i \in 1..Len(src.l) :
                      IF src.l[i].t = "dict" THEN msgs[i] = src.l[i].d
                      ELSE msgs[i] = [role |-> "user", content |-> Str(src.l[i])]
            /\ src.t \notin {"str", "list"} =>
                msgs = <<[role |-> "user", content |-> Str(src)]>>
            /\ src = PyInt(5) => msgs[1].content = "5"
            /\ src = PyDict(RoleMessage) =>
                msgs[1].content = "{'role': 'system', 'content': 'Be brief.'}"
            /\ src = PyList(<<PyInt(7), PyStr("hi")>>) =>
                msgs = <<[role |-> "user", content |-> "7"],
                         [role |-> "user", content |-> "hi"]>>

\* prepare turned a two-element list of a mapping and a plain value into
\* two messages
C6_Witness ==
    /\ AfterNormalPrepare
    /\ argument.prop.preprocessed_input = PyList(<<PyDict(RoleMessage), PyInt(7)>>)
    /\ Payload.messages = <<RoleMessage, [role |-> "user", content |-> "7"]>>

\* C7: after prepare every message of the payload has a role field and a
\* content field, the role being "user" when the caller supplied none.
C7_MessagesHaveRoleAndContent ==
    AfterPrepare =>
        \A i \in 1..Len(Payload.messages) :
            {"role", "content"} \subseteq DOMAIN Payload.messages[i]

OptionalKeys == {"top_p", "frequency_penalty", "presence_penalty", "stop"}

\* C8: for both adapters prepare copies each of top_p, frequency_penalty,
\* presence_penalty and stop into the payload exactly when the caller's
\* options hold that key, with the value supplied.
C8_OptionalKeysCopied ==
    AfterNormalPrepare =>
        \A k \in OptionalKeys :
            /\ k \in DOMAIN Payload <=> k \in DOMAIN Options
            /\ k \in DOMAIN Options => Payload[k] = Options[k]

CallerTemperature ==
    IF "temperature" \in DOMAIN Options THEN Options.temperature
    ELSE DefaultTemperature
CallerMaxTokens ==
    IF "max_tokens" \in DOMAIN Options THEN Options.max_tokens
    ELSE DefaultMaxTokens

\* the scenario of the spec: preprocessed_input "Translate to German: Hello"
\* and no options
TranslateScenario ==
    (argument.prop.preprocessed_input = PyStr(TranslatePrompt)
     /\ argument.kwargs = PyDict(EmptyDict)) =>
        /\ Payload.messages = <<[role |-> "user", content |-> TranslatePrompt]>>
        /\ Payload.temperature = PyFloat("0.7")
        /\ Payload.max_tokens = PyInt(2000)
        /\ Payload.stream = FALSE

\* C9 as claimed: in every payload prepare writes, on the normal and on the
\* fallback path, stream is false, temperature is the caller's option or 0.7
\* and max_tokens the caller's option or 2000.
C9_Original ==
    AfterPrepare =>
        /\ Payload.stream = FALSE
        /\ Payload.temperature = CallerTemperature
        /\ Payload.max_tokens = CallerMaxTokens
        /\ TranslateScenario

\* C9 (amended): in every payload prepare writes stream is false; on the
\* normal path temperature is the caller's option or 0.7 and max_tokens the
\* caller's option or 2000; on the fallback path temperature is 0.7 and
\* max_tokens 2000 whatever the options hold.
C9_SamplingParameters ==
    AfterPrepare =>
        /\ Payload.stream = FALSE
        /\ AfterNormalPrepare =>
              /\ Payload.temperature = CallerTemperature
              /\ Payload.max_tokens = CallerMaxTokens
        /\ AfterFallbackPrepare =>
              /\ Payload.temperature = PyFloat("0.7")
              /\ Payload.max_tokens = PyInt(2000)
        /\ TranslateScenario

\* prepare wrote a payload for a caller who sets temperature, max_tokens and
\* stream
C9_Witness ==
    /\ AfterNormalPrepare
    /\ {"temperature", "max_tokens", "stream"} \subseteq DOMAIN Options
    /\ Payload.temperature = PyFloat("0.2")
    /\ Payload.max_tokens = PyInt(100)

\* the fallback wrote a payload for a caller who sets temperature
C9_WitnessFallback ==
    /\ AfterFallbackPrepare
    /\ "temperature" \in DOMAIN Options

\* C10: no prepare or forward call changes preprocessed_input,
\* processed_input, instance or the options of the request; prepare writes
\* prepared_input only and forward writes nothing.
C10_RequestFrame ==
    [][/\ argument'.has_prop = argument.has_prop
       /\ argument'.kwargs = argument.kwargs
       /\ argument'.prop.preprocessed_input = argument.prop.preprocessed_input
       /\ argument'.prop.processed_input = argument.prop.processed_input
       /\ argument'.prop.instance = argument.prop.instance
       /\ call'.op = "forward" => argument' = argument]_vars

\* forward ran on a request prepare had written its payload to, with options
\* and all three prompt fields in place
C10_Witness ==
    /\ AfterForward
    /\ HasPreparedInput(argument)
    /\ call.sent = <<Payload>>
    /\ "context" \in DOMAIN Options
    /\ Usable(argument.prop.preprocessed_input)
    /\ Usable(argument.prop.processed_input)
    /\ Usable(argument.prop.instance)


\* ------------------------------------------------- claims on the stripper
\* the stripper returned
AfterStrip == call.op = "strip"
\* the stripper returned, and what it got was the raw text itself
AfterFirstStrip == AfterStrip /\ call.content = Flatten(call.parts)

\* s without the whitespace at its two ends
Trimmed(s) ==
    LET keep == {i \in 1..Len(s) : s[i] \notin Whitespace}
    IN  IF keep = {} THEN <<>>
        ELSE SubSeq(s, CHOOSE i \in keep : \A j \in keep : i <= j,
                       CHOOSE i \in keep : \A j \in keep : i >= j)

Contains(s, pat) ==
    \E i \in 1..(Len(s) - Len(pat) + 1) : SubSeq(s, i, i + Len(pat) - 1) = pat

\* C11: the stripper is idempotent: applied to its own result it returns
\* that result again, for every input text.
C11_Idempotent ==
    [][(call.op = "strip" /\ call'.op = "strip") => call'.ret = call.ret]_vars

\* no piece holds a "<" of its own: the only tags are those of whole blocks
MarkupFree(parts) ==
    \A k \in 1..Len(parts) : \A i \in 1..Len(parts[k].c) : parts[k].c[i] # "<"

\* the text outside the blocks, in its original order
Outside(parts) == Flatten(SelectSeq(parts, LAMBDA part : ~part.think))

\* C12: for a text made of plain segments interleaved with complete,
\* non-nested <think>...</think> blocks (their content may span lines) the
\* stripper returns the segments outside the blocks, concatenated in order and
\* trimmed; '<think>ignored</think>Hello' gives 'Hello' and
\* '<think>a</think>Keep1<think>b</think>Keep2' gives 'Keep1Keep2'.
C12_OutsideTextKept ==
    (AfterFirstStrip /\ MarkupFree(call.parts)) =>
        /\ call.ret = Trimmed(Outside(call.parts))
        /\ call.parts = IgnoredHello => Join(call.ret) = "Hello"
        /\ call.parts = KeepBoth => Join(call.ret) = "Keep1Keep2"

\* two blocks, one of them spanning lines, text around them that gets trimmed
C12_Witness ==
    /\ AfterFirstStrip
    /\ MarkupFree(call.parts)
    /\ Cardinality({k \in 1..Len(call.parts) : call.parts[k].think}) = 2
    /\ Outside(call.parts) # Trimmed(Outside(call.parts))
    /\ call.ret = <<"a">>

\* C13: a text without a closing </think> comes back trimmed and otherwise
\* unchanged, an unterminated <think> included, so a text that is not blank
\* and has no closing tag never gives the empty string.
C13_NoCloseTagOnlyTrims ==
    (AfterStrip /\ ~Contains(call.content, CloseTag)) =>
        /\ call.ret = Trimmed(call.content)
        /\ (\E i \in 1..Len(call.content) : call.content[i] \notin Whitespace)
               => call.ret # <<>>

\* an unterminated <think> with whitespace on both sides
C13_Witness ==
    /\ AfterStrip
    /\ ~Contains(call.content, CloseTag)
    /\ Contains(call.content, OpenTag)
    /\ call.content[1] \in Whitespace
    /\ call.content[Len(call.content)] \in Whitespace
    /\ Contains(call.ret, OpenTag)


\* ------------------------------------------- claims on forward's outcomes
Metadata == call.ret.metadata

\* forward returned the error pair tagged st
HasStatus(st) ==
    /\ ~call.raised
    /\ {"error", "status"} \subseteq DOMAIN Metadata
    /\ Metadata.error = TRUE
    /\ Metadata.status = st

\* OpenAIEngine.forward was called
OpenAICalled == call.op = "forward" /\ call.variant = "openai"
\* ... and its POST was answered with an HTTP response
OpenAIAnswered ==
    OpenAICalled /\ HasPreparedInput(argument) /\ call.reply.kind = "response"
\* ... of a 2xx status whose body decodes as JSON
OpenAIDecoded ==
    /\ OpenAIAnswered
    /\ call.reply.status_code \in 200..299
    /\ call.reply.body # NotJson

Body == call.reply.body
HasChoicesField == Body.t = "dict" /\ "choices" \in DOMAIN Body.d
NonEmptyChoices ==
    HasChoicesField /\ Body.d.choices.t = "list" /\ Len(Body.d.choices.l) > 0
RawText == Body.d.choices.l[1].d.message.d.content.c

\* C14: OpenAIEngine.forward turns every non-2xx HTTP status into an error
\* result with status 'api_error' and http_status equal to the code; 401
\* gets the authentication text, any other code a text naming the code; the
\* status is never 'connection_error'.
C14_Non2xxIsApiError ==
    (OpenAIAnswered /\ call.reply.status_code \notin 200..299) =>
        /\ HasStatus("api_error")
        /\ "http_status" \in DOMAIN Metadata
        /\ Metadata.http_status = call.reply.status_code
        /\ call.ret.texts[1] =
             IF call.reply.status_code = 401
             THEN "Error: Authentication failed. Please check your API key."
             ELSE "Error: API request failed (HTTP "
                  \o IntStr(call.reply.status_code) \o "): "
                  \o HTTPErrorText(call.reply.status_code,
                                   engines.openai.base_url \o "/chat/completions")

\* C15: when the POST of OpenAIEngine.forward fails at the network level the
\* result has status 'connection_error' and a text embedding the exception
\* text; any other unexpected exception, such as a request without
\* prepared_input, gives 'internal_error'; neither leaves forward.
C15_ExceptionsClassified ==
    OpenAICalled =>
        LET tried == OpenAITry(engines.openai, argument, call.reply)
        IN  /\ ~call.raised
            /\ (HasPreparedInput(argument) /\ call.reply.kind = "exception") =>
                  /\ HasStatus("connection_error")
                  /\ call.ret.texts[1] =
                       "Error: API connection error: " \o ConnectionErrorText
            /\ ~HasPreparedInput(argument) =>
                  /\ HasStatus("internal_error")
                  /\ call.ret.texts[1] =
                       "Error: Unexpected error: " \o AttributeErrorText
            /\ (tried.kind = "raise" /\ ~IsRequestException(tried.class)) =>
                  /\ HasStatus("internal_error")
                  /\ call.ret.texts[1] = "Error: Unexpected error: " \o tried.text

\* the POST of a prepared request failed at the network level
C15_Witness ==
    /\ OpenAICalled
    /\ HasPreparedInput(argument)
    /\ call.reply.kind = "exception"
    /\ HasStatus("connection_error")

\* forward on a request that was never prepared
C15_WitnessInternal ==
    /\ OpenAICalled
    /\ ~HasPreparedInput(argument)
    /\ HasStatus("internal_error")

\* C16: for a 2xx response whose body decodes as JSON, OpenAIEngine.forward
\* returns status 'no_content' whenever the choices field is missing or is an
\* empty array.
C16_NoChoicesIsNoContent ==
    (OpenAIDecoded /\ (~HasChoicesField \/ Body.d.choices = PyList(<<>>))) =>
        HasStatus("no_content")

\* C17: for a 2xx response whose JSON body has a non-empty choices array,
\* OpenAIEngine.forward returns either the success pair (the stripped text of
\* choices[0].message.content, usage in the metadata when the body has it)
\* or status 'empty_response' when the stripped text is empty; no other
\* status.
C17_SuccessOrEmptyResponse ==
    (OpenAIDecoded /\ NonEmptyChoices) =>
        /\ ~call.raised
        /\ IF "status" \in DOMAIN Metadata
           THEN /\ HasStatus("empty_response")
                /\ extract_final_response(RawText) = <<>>
           ELSE /\ "error" \notin DOMAIN Metadata
                /\ call.ret.texts[1] = Join(extract_final_response(RawText))
                /\ "usage" \in DOMAIN Body.d =>
                      /\ "usage" \in DOMAIN Metadata
                      /\ Metadata.usage = Body.d.usage

\* C18: OpenAIEngine.forward checks the HTTP status before it decodes the
\* body: a non-2xx response gives 'api_error' even when its body is valid
\* JSON with choices, a 2xx response with an undecodable body gives
\* 'invalid_response', and a call produces one status only.
C18_StatusBeforeBody ==
    OpenAIAnswered =>
        /\ (call.reply.status_code \notin 200..299 /\ NonEmptyChoices) =>
              HasStatus("api_error")
        /\ (call.reply.status_code \in 200..299 /\ Body = NotJson) =>
              HasStatus("invalid_response")

\* C19 as stated: every forward call performs exactly one POST to
\* {base_url}/chat/completions, never none and never more than one.
C19_Original ==
    call.op = "forward" =>
        /\ Len(call.sent) = 1
        /\ call.urls = <<engines[call.variant].base_url \o "/chat/completions">>

\* C19: a forward call on a request that holds a prepared payload performs
\* exactly one POST, of that payload to {base_url}/chat/completions, whatever
\* the provider answers; a call on a request without prepared_input performs
\* none; no call performs more than one.
C19_OnePostPerPreparedCall ==
    call.op = "forward" =>
        /\ Len(call.sent) = (IF HasPreparedInput(argument) THEN 1 ELSE 0)
        /\ Len(call.urls) = Len(call.sent)
        /\ \A i \in 1..Len(call.sent) :
              /\ call.sent[i] = Payload
              /\ call.urls[i] = engines[call.variant].base_url \o "/chat/completions"

\* a POST that was answered with a server error and was not repeated
C19_Witness ==
    /\ call.op = "forward"
    /\ HasPreparedInput(argument)
    /\ call.reply.kind = "response"
    /\ call.reply.status_code = 500
    /\ Len(call.sent) = 1

\* forward on a request without a payload: nothing is sent
C19_WitnessNoPost ==
    /\ call.op = "forward"
    /\ ~HasPreparedInput(argument)
    /\ Len(call.sent) = 0

Fresh(request) == [request EXCEPT !.prop.prepared_input = Absent]

\* C21: the adapter is stateless across calls: no prepare or forward changes
\* its base_url, model or api_key, and the payload prepare writes for a
\* request is a function of that request and the configuration alone,
\* whatever was prepared or answered before.
C21_Stateless ==
    [][/\ engines' = engines
       /\ engines' = [v \in Variants |-> EngineInit(v)]
       /\ (call'.op = "prepare" /\ ~call'.raised) =>
             argument'.prop.prepared_input =
                PyDict(PreparedInput(call'.variant, EngineInit(call'.variant).model,
                                     Fresh(argument)))]_vars

\* prepare ran on a request while the other request holds a payload of its own
C21_Witness ==
    /\ AfterPrepare
    /\ HasPreparedInput(argument)
    /\ HasPreparedInput(other)
    /\ other.prop.prepared_input # argument.prop.prepared_input

\* C27: with the prepare and forward calls of two requests interleaved in
\* any order on the same adapter, the body forward POSTs for a request is
\* the payload prepare wrote for that very request.
C27_PayloadTravelsOnRequest ==
    [][(call'.op = "forward" /\ HasPreparedInput(argument)) =>
          /\ call'.sent = <<argument.prop.prepared_input.d>>
          /\ \E v \in Variants :
                call'.sent = <<PreparedInput(v, EngineInit(v).model, Fresh(argument))>>
          /\ argument' = argument
          /\ other' = other]_vars

\* forward for one request while the other request holds a different payload
C27_Witness ==
    /\ call.op = "forward"
    /\ HasPreparedInput(argument)
    /\ HasPreparedInput(other)
    /\ other.prop.prepared_input # argument.prop.prepared_input
    /\ call.sent = <<argument.prop.prepared_input.d>>


\* --------------------------------------- more claims on the stripper
\* parts is <think>, then text with at least one whole block in it, then
\* </think> as piece k, then plain answer text
NestedUpTo(parts, k) ==
    /\ 2 < k /\ k < Len(parts)
    /\ parts[1] = Text(OpenTag)
    /\ parts[k] = Text(CloseTag)
    /\ MarkupFree(SubSeq(parts, 2, k - 1))
    /\ \E j \in 2..(k - 1) : parts[j].think
    /\ MarkupFree(SubSeq(parts, k + 1, Len(parts)))
    /\ \A j \in (k + 1)..Len(parts) : ~parts[j].think

\* C24: the stripper removes nested think blocks completely: when a <think>
\* block contains another <think>...</think> block and answer text follows,
\* the result is the answer text outside the outermost block alone, with no
\* thinking content and no stray </think> in it.
C24_NestedRemoved ==
    AfterFirstStrip =>
        \A k \in 1..Len(call.parts) :
            NestedUpTo(call.parts, k) =>
                /\ call.ret = Trimmed(Flatten(SubSeq(call.parts, k + 1, Len(call.parts))))
                /\ ~Contains(call.ret, CloseTag)

\* s is made of whitespace and complete <think>...</think> blocks alone
RECURSIVE OnlyBlanksAndBlocks(_)
OnlyBlanksAndBlocks(s) ==
    IF s = <<>> THEN TRUE
    ELSE IF s[1] \in Whitespace THEN OnlyBlanksAndBlocks(Tail(s))
    ELSE /\ Len(s) >= Len(OpenTag) + Len(CloseTag)
         /\ SubSeq(s, 1, Len(OpenTag)) = OpenTag
         /\ \E e \in (Len(OpenTag) + 1)..(Len(s) - Len(CloseTag) + 1) :
               /\ SubSeq(s, e, e + Len(CloseTag) - 1) = CloseTag
               /\ ~Contains(SubSeq(s, Len(OpenTag) + 1, e + Len(CloseTag) - 2), CloseTag)
               /\ OnlyBlanksAndBlocks(SubSeq(s, e + Len(CloseTag), Len(s)))

\* the last position at which pat starts in s, 0 if none
LastStart(s, pat) ==
    LET starts == {i \in 1..(Len(s) - Len(pat) + 1) : SubSeq(s, i, i + Len(pat) - 1) = pat}
    IN  IF starts = {} THEN 0 ELSE CHOOSE i \in starts : \A j \in starts : i >= j

C30_WitnessForward ==
    /\ OpenAICalled
    /\ Contains(RawText, OpenTag)
    /\ OnlyBlanksAndBlocks(RawText)
    /\ HasStatus("empty_response")


\* ------------------------------------------------ more claims on prepare
\* the request as the caller built it, its context option taken away
WithoutContext ==
    [Fresh(argument) EXCEPT
        !.kwargs = IF argument.kwargs.t = "dict"
                   THEN PyDict([k \in DOMAIN argument.kwargs.d \ {"context"} |->
                                  argument.kwargs.d[k]])
                   ELSE argument.kwargs]

\* the precedence chain gets as far as instance and stops there
SourceIsInstance ==
    /\ ~Present(argument.prop.preprocessed_input)
    /\ ~Present(argument.prop.processed_input)
    /\ Present(argument.prop.instance)

\* C28: the keys of every payload prepare writes are model, messages,
\* temperature, max_tokens and stream plus at most top_p, frequency_penalty,
\* presence_penalty and stop: no other caller option is copied, context
\* included, and context changes the payload only when the prompt source is
\* instance.
C28_PayloadKeySet ==
    AfterPrepare =>
        /\ PayloadKeys \subseteq DOMAIN Payload
        /\ DOMAIN Payload \subseteq PayloadKeys \cup OptionalKeys
        /\ ~SourceIsInstance =>
              Payload = PreparedInput(call.variant, engines[call.variant].model,
                                      WithoutContext)

\* options with context, user and stream next to a prompt that is not instance
C28_Witness ==
    /\ AfterPrepare
    /\ {"context", "user", "stream", "top_p"} \subseteq DOMAIN Options
    /\ ~SourceIsInstance
    /\ "top_p" \in DOMAIN Payload

\* the prompt fields that are there but empty
EmptyFields ==
    {f \in {"preprocessed_input", "processed_input", "instance"} :
        /\ hasattr(argument.prop[f])
        /\ ~TruthRaises(argument.prop[f])
        /\ ~Truthy(argument.prop[f])}

\* C29: after prepare returned, the payload's messages are never empty: an
\* empty list, empty string or other empty value in preprocessed_input,
\* processed_input or instance is skipped by the precedence chain as if the
\* field were not there, so at least one message is always sent.
C29_MessagesNeverEmpty ==
    AfterPrepare =>
        /\ Len(Payload.messages) >= 1
        /\ Payload = PreparedInput(call.variant, engines[call.variant].model,
                                   Without(EmptyFields))

\* an empty list in preprocessed_input
C29_Witness ==
    /\ AfterPrepare
    /\ argument.prop.preprocessed_input = PyList(<<>>)
    /\ Len(Payload.messages) = 1

\* ------------------------------------------------------- claims: engine setup
\* a valid config file with a configured API key
Configured(file) ==
    /\ file.t = "json"
    /\ file.v.t = "dict"
    /\ get(file.v.d, URL_KEY, PyText(<<>>)).t = "text"
    /\ ~ApiKeyRejected("openai-comp", get(file.v.d, API_KEY_KEY, PyNone))
Reachable(probe) == probe.kind = "response" /\ probe.status_code = 200
MainRan(name) ==
    /\ call.op = "main"
    /\ call.argv = <<name>>
    /\ Configured(call.file)
    /\ Reachable(call.probe)

\* C22: main.py run with 'openai' works as it does with 'ollama': with a valid
\* config file, a configured API key and a reachable API, check_setup succeeds
\* and the six demos run with the engine of that name registered.
C22_OpenAILikeOllama ==
    \A name \in {"openai", "ollama"} :
        MainRan(name) =>
            /\ call.ret
            /\ call.demos = Demos
            /\ KEY \in DOMAIN repository
            /\ repository[KEY].class =
                   (IF name = "openai" THEN "OpenAIEngine" ELSE "OllamaEngine")

SetupCalled == call.op = "setup_engine"
Last(s) == s[Len(s)]
IsPrefix(a, b) == Len(a) <= Len(b) /\ SubSeq(b, 1, Len(a)) = a

\* C23: setup_engine returns True exactly when that call registered a new
\* engine of the requested type under 'neurosymbolic'; when it returns False
\* the registry is as it was before the call.
C23_TrueIffRegistered ==
    [][ call'.op = "setup_engine" =>
          /\ call'.ret <=> repository' # repository
          /\ call'.ret =>
                /\ DOMAIN repository' = DOMAIN repository \cup {KEY}
                /\ repository'[KEY].class = ENGINE_TYPES[call'.engine_type].class
                /\ KEY \in DOMAIN repository => repository'[KEY] # repository[KEY]
          /\ ~call'.ret => repository' = repository ]_vars

\* an OpenAIEngine took the place of a registered OllamaEngine's successor
C23_Witness ==
    /\ SetupCalled
    /\ call.ret
    /\ call.engine_type = "openai-comp"
    /\ repository[KEY].class = "OpenAIEngine"
    /\ repository[KEY].obj = 1

\* a call that got as far as creating the engine and was refused the registry
C23_WitnessRefused ==
    /\ SetupCalled
    /\ ~call.ret
    /\ ~call.allow_override
    /\ Last(call.steps) = "create"
    /\ KEY \in DOMAIN repository

\* the order of the steps of setup_engine
SetupSteps(engine_type) ==
    IF engine_type = "openai-comp"
    THEN <<"engine_type", "config_load", "api_key", "connection_test",
           "create", "register">>
    ELSE <<"engine_type", "config_load", "connection_test", "create",
           "register">>

Entered(step) == \E i \in 1..Len(call.steps) : call.steps[i] = step
Loadable(file) == file.t = "json" /\ file.v.t = "dict"
KeyMissing(file) ==
    LET k == get(file.v.d, API_KEY_KEY, PyNone)
    IN  k = PyNone \/ k = PyStr("") \/ k = Placeholder

\* C25: setup_engine takes its steps in the order engine-type check, config
\* load, API-key check (openai-comp only), connection test, engine creation,
\* registration, and stops at the first failure; it registers only after a
\* connection test that returned True, and for openai-comp with a missing or
\* placeholder key it makes no connection test.
C25_FixedOrder ==
    SetupCalled =>
        /\ IsPrefix(call.steps, SetupSteps(call.engine_type))
        /\ call.ret <=> call.steps = SetupSteps(call.engine_type)
        /\ call.engine_type \notin DOMAIN ENGINE_TYPES =>
               call.steps = <<"engine_type">>
        /\ (call.engine_type \in DOMAIN ENGINE_TYPES /\ ~Loadable(call.file)) =>
               Last(call.steps) = "config_load"
        /\ (Entered("connection_test") /\ ~Reachable(call.probe)) =>
               Last(call.steps) = "connection_test"
        /\ Entered("register") =>
               /\ Entered("connection_test")
               /\ Reachable(call.probe)
               /\ Len(call.gets) = 1
        /\ (call.engine_type = "openai-comp" /\ Loadable(call.file)
              /\ KeyMissing(call.file)) =>
               /\ Last(call.steps) = "api_key"
               /\ call.gets = <<>>
        /\ ~Entered("connection_test") => call.gets = <<>>

\* openai-comp with the placeholder key stopped at the key check
C25_Witness ==
    /\ SetupCalled
    /\ call.engine_type = "openai-comp"
    /\ Loadable(call.file)
    /\ get(call.file.v.d, API_KEY_KEY, PyNone) = Placeholder
    /\ Reachable(call.probe)
    /\ call.steps = <<"engine_type", "config_load", "api_key">>

\* all six steps taken
C25_WitnessAll ==
    /\ SetupCalled
    /\ call.ret
    /\ call.steps = SetupSteps("openai-comp")
    /\ call.gets = <<"https://x.io/v1/models">>

\* the order of the steps of the test script
ScriptSteps ==
    <<"load_config", "verify_config", "test_engine_connection",
      "setup_engine", "run_tests">>
ScriptRan == call.op = "test_engine"
AllPassed == \A i \in 1..Len(Tests) : call.outcomes[i] = "pass"

\* C26: the test script runs the tests only after load_config, verify_config,
\* the connection test and setup_engine succeeded, in that order; it exits with
\* status 1 at the first of these that fails, and with status 0 only when all
\* three tests, each run once, passed, a test that raises counting as failed.
C26_TestsAfterSetup ==
    ScriptRan =>
        /\ IsPrefix(call.steps, ScriptSteps)
        /\ call.steps # ScriptSteps =>
               /\ call.status = 1
               /\ call.results.ran = <<>>
        /\ (call.steps # <<>> /\ ~Loadable(call.file)) =>
               call.steps = <<"load_config">>
        /\ (Entered("test_engine_connection") /\ ~Reachable(call.probe1)) =>
               Last(call.steps) = "test_engine_connection"
        /\ (Entered("setup_engine") /\ ~Reachable(call.probe2)) =>
               Last(call.steps) = "setup_engine"
        /\ call.steps = ScriptSteps =>
               /\ Reachable(call.probe1)
               /\ Reachable(call.probe2)
               /\ KEY \in DOMAIN repository
               /\ call.results.ran = Tests
               /\ call.results.total = Len(Tests)
               /\ call.results.passed =
                      Cardinality({i \in 1..Len(Tests) : call.outcomes[i] = "pass"})
        /\ call.status = 0 <=> (call.steps = ScriptSteps /\ AllPassed)
        /\ call.status \in {0, 1}

\* the tests ran, one raised, and the script exited with status 1
C26_Witness ==
    /\ ScriptRan
    /\ call.steps = ScriptSteps
    /\ call.outcomes = <<"pass", "raise", "pass">>
    /\ call.results.passed = 2
    /\ call.status = 1

\* every test passed
C26_WitnessPassed ==
    /\ ScriptRan
    /\ call.status = 0
    /\ call.argv = <<"openai-comp">>

\* verify_config turned the config down
C26_WitnessRejected ==
    /\ ScriptRan
    /\ call.steps = <<"load_config", "verify_config">>
    /\ call.status = 1

====
